---- MODULE Spec2Model ----
(***************************************************************************)
(* Brand pattern generator: the asset pool fed by loadShapes, the layout   *)
(* computed by generatePatternLayout, and generatePattern with its two     *)
(* canvas renders.                                                         *)
(*                                                                         *)
(* JavaScript numbers are modelled as exact rationals together with the    *)
(* special values NaN, +Infinity, -Infinity and undefined; rounding of     *)
(* IEEE doubles is not modelled.                                           *)
(***************************************************************************)
EXTENDS Integers, Sequences, FiniteSets, TLC

VARIABLES shapes, pattern, options, isGenerating, loads, now, alerts,
          gen, previewCanvas, canvas, rng, downloads

vars == <<shapes, pattern, options, isGenerating, loads, now, alerts,
          gen, previewCanvas, canvas, rng, downloads>>

-----------------------------------------------------------------------------
(* Bounds of the model.                                                    *)

\* files of one upload batch are at most this many
MaxBatch == 2
\* loadShapes is called at most this many times
MaxLoads == 2
\* Date.now() takes the values 0..MaxClock
MaxClock == 1
\* Math.random() returns k / RandDen for k in 0..RandDen-1
RandDen == 2
\* the values Math.random() returns repeat with this period
RandPeriod == 3
\* options.shapeCount ranges over 1..MaxShapeCount
MaxShapeCount == 4
\* generatePattern is called at most this many times
MaxGenerations == 2
\* the export buttons are clicked at most this many times
MaxExports == 1

-----------------------------------------------------------------------------
(* JavaScript numbers.                                                     *)

Abs(a) == IF a < 0 THEN -a ELSE a

RECURSIVE GCD(_, _)
GCD(a, b) == IF b = 0 THEN a ELSE GCD(b, a % b)

\* the rational n/d (d # 0) in lowest terms with a positive denominator
Num(n, d) ==
    LET g == GCD(Abs(n), Abs(d))
        s == IF d < 0 THEN -1 ELSE 1
    IN  [k |-> "num", n |-> (s * n) \div g, d |-> (s * d) \div g]

NaN == [k |-> "nan", n |-> 0, d |-> 1]
Infinity(sign) == [k |-> "inf", n |-> sign, d |-> 1]
Undefined == [k |-> "undef", n |-> 0, d |-> 1]

IsNum(a) == a.k = "num"
Sign(a) == IF a.n > 0 THEN 1 ELSE IF a.n < 0 THEN -1 ELSE 0

\* a * b
JsMul(a, b) ==
    IF a.k \in {"nan", "undef"} \/ b.k \in {"nan", "undef"} THEN NaN
    ELSE IF IsNum(a) /\ IsNum(b) THEN Num(a.n * b.n, a.d * b.d)
    ELSE IF Sign(a) * Sign(b) = 0 THEN NaN
    ELSE Infinity(Sign(a) * Sign(b))

\* a / b
JsDiv(a, b) ==
    IF a.k \in {"nan", "undef"} \/ b.k \in {"nan", "undef"} THEN NaN
    ELSE IF IsNum(a) /\ IsNum(b)
         THEN IF b.n # 0 THEN Num(a.n * b.d, a.d * b.n)
              ELSE IF a.n = 0 THEN NaN ELSE Infinity(Sign(a))
    ELSE IF IsNum(a) THEN Num(0, 1)
    ELSE IF IsNum(b) THEN Infinity(Sign(a) * (IF b.n < 0 THEN -1 ELSE 1))
    ELSE NaN

\* a + b
JsAdd(a, b) ==
    IF a.k \in {"nan", "undef"} \/ b.k \in {"nan", "undef"} THEN NaN
    ELSE IF IsNum(a) /\ IsNum(b) THEN Num(a.n * b.d + b.n * a.d, a.d * b.d)
    ELSE IF IsNum(a) THEN b
    ELSE IF IsNum(b) THEN a
    ELSE IF a.n = b.n THEN a ELSE NaN

\* a - b
JsSub(a, b) == JsAdd(a, JsMul(Num(-1, 1), b))

\* a < b ; every comparison with NaN or undefined is false
JsLt(a, b) ==
    IF a.k \in {"nan", "undef"} \/ b.k \in {"nan", "undef"} THEN FALSE
    ELSE IF IsNum(a) /\ IsNum(b) THEN a.n * b.d < b.n * a.d
    ELSE IF IsNum(a) THEN b.n > 0
    ELSE IF IsNum(b) THEN a.n < 0
    ELSE a.n < b.n

\* a <= b
JsLe(a, b) == JsLt(a, b) \/ (a.k \in {"num", "inf"} /\ a = b)

\* a === b
JsEq(a, b) == a.k \in {"num", "inf"} /\ a = b

\* Math.max(a, b)
MathMax(a, b) ==
    IF a.k \in {"nan", "undef"} \/ b.k \in {"nan", "undef"} THEN NaN
    ELSE IF JsLt(a, b) THEN b ELSE a

\* x || dflt for a number x : 0, NaN and undefined are falsy
JsOr(x, dflt) ==
    IF x.k \in {"nan", "undef"} \/ (IsNum(x) /\ x.n = 0) THEN dflt ELSE x

\* Math.floor of a finite number, as an integer
MathFloor(a) == a.n \div a.d

\* Math.ceil(Math.sqrt(n)) for an integer n >= 0
CeilSqrt(n) == CHOOSE g \in 0..n : g * g >= n /\ (g = 0 \/ (g - 1) * (g - 1) < n)

-----------------------------------------------------------------------------
(* Attribute strings.  A string is the sequence of the pieces that         *)
(* split(' ') yields; a piece is a numeric literal ("int"), a numeric      *)
(* literal followed by other characters ("unit", e.g. 50px), text that     *)
(* starts with no number ("junk") or the empty piece ("empty").            *)

Tok(t, v) == [t |-> t, v |-> v]
Absent == << >>
EmptyString == << Tok("empty", 0) >>
Str(v) == << Tok("int", v) >>
Px(v) == << Tok("unit", v) >>
Junk == << Tok("junk", 0) >>

\* Number(piece)
Number(tok) ==
    CASE tok.t = "int" -> Num(tok.v, 1)
      [] tok.t = "empty" -> Num(0, 1)
      [] OTHER -> NaN

\* parseFloat(string): the numeric prefix after leading white space
RECURSIVE ParseFloat(_)
ParseFloat(str) ==
    IF str = << >> THEN NaN
    ELSE IF Head(str).t = "empty" THEN ParseFloat(Tail(str))
    ELSE IF Head(str).t \in {"int", "unit"} THEN Num(Head(str).v, 1)
    ELSE NaN

\* a string used as a condition: null and "" are falsy
Truthy(str) == str # Absent /\ str # EmptyString

-----------------------------------------------------------------------------
(* Uploaded files.  A file has a name, a media type, whether FileReader    *)
(* reads it, whether the browser decodes it as an image, and its content:  *)
(* for markup, whether it parses to a document with an svg root and the    *)
(* root's attributes; for a raster image, its pixel dimensions.            *)

Markup(root, viewBox, width, height) ==
    [root |-> root, viewBox |-> viewBox, width |-> width, height |-> height]
NoMarkup == Markup(FALSE, Absent, Absent, Absent)

File(name, type, readOk, decodes, markup, w, h) ==
    [name |-> name, type |-> type, readOk |-> readOk, decodes |-> decodes,
     markup |-> markup, w |-> w, h |-> h]

\* <svg viewBox="0 0 50 50">
SvgViewBox == File("viewbox.svg", "image/svg+xml", TRUE, TRUE,
                   Markup(TRUE, <<Tok("int", 0), Tok("int", 0), Tok("int", 50), Tok("int", 50)>>,
                          Absent, Absent), 0, 0)
\* <svg width="0" height="abc">
SvgBadAttrs == File("badattrs.svg", "image/svg+xml", TRUE, TRUE,
                    Markup(TRUE, Absent, Str(0), Junk), 0, 0)
\* <svg viewBox="0 0 0 50">
SvgViewBoxZero == File("flat.svg", "image/svg+xml", TRUE, TRUE,
                       Markup(TRUE, <<Tok("int", 0), Tok("int", 0), Tok("int", 0), Tok("int", 50)>>,
                              Absent, Absent), 0, 0)
\* text with the SVG media type that is no well-formed document
SvgMalformed == File("broken.svg", "image/svg+xml", TRUE, FALSE, NoMarkup, 0, 0)
\* a 200x100 PNG
Png200x100 == File("logo.png", "image/png", TRUE, TRUE, NoMarkup, 200, 100)
\* a file with the PNG media type whose bytes are no image
PngCorrupt == File("corrupt.png", "image/png", TRUE, FALSE, NoMarkup, 0, 0)
\* a PNG that FileReader fails to read
PngUnreadable == File("gone.png", "image/png", FALSE, FALSE, NoMarkup, 0, 0)
\* a JPEG
Jpeg == File("photo.jpg", "image/jpeg", TRUE, TRUE, NoMarkup, 64, 64)

Files == {SvgViewBox, SvgBadAttrs, SvgMalformed, Png200x100, PngCorrupt, PngUnreadable, Jpeg}

\* the FileList values handed to loadShapes
RECURSIVE SeqsUpTo(_, _)
SeqsUpTo(S, n) ==
    IF n = 0 THEN {<< >>}
    ELSE LET shorter == SeqsUpTo(S, n - 1)
         IN  shorter \cup {Append(q, x) : q \in {r \in shorter : Len(r) = n - 1}, x \in S}

FileLists == SeqsUpTo(Files, MaxBatch) \ {<< >>}

\* fileType.includes(sub)
Includes(type, sub) ==
    CASE sub = "svg" -> type \in {"image/svg+xml"}
      [] sub = "png" -> type \in {"image/png"}
      [] OTHER -> FALSE

-----------------------------------------------------------------------------
(* Asset normalisation.                                                    *)

Dims(w, h) == [width |-> w, height |-> h]

\* the component of viewBox.split(' ').map(Number) at a 1-based position
Component(str, pos) == IF pos <= Len(str) THEN Number(str[pos]) ELSE Undefined

\* getAttribute(name) || '100'
AttrOr100(str) == IF Truthy(str) THEN str ELSE Str(100)

extractSVGDimensions(svgContent) ==
    IF svgContent.root
    THEN IF Truthy(svgContent.viewBox)
         THEN Dims(JsOr(Component(svgContent.viewBox, 3), Num(100, 1)),
                   JsOr(Component(svgContent.viewBox, 4), Num(100, 1)))
         ELSE Dims(ParseFloat(AttrOr100(svgContent.width)),
                   ParseFloat(AttrOr100(svgContent.height)))
    ELSE Dims(Num(100, 1), Num(100, 1))

\* what img.onload reports for a decoded image
getImageDimensions(file) == Dims(Num(file.w, 1), Num(file.h, 1))

Supported(file) == Includes(file.type, "svg") \/ Includes(file.type, "png")

AssetType(file) == IF Includes(file.type, "svg") THEN "svg" ELSE "png"

\* the object pushed to newShapes for file number i (0-based) at time t
NewAsset(file, i, t) ==
    LET type == AssetType(file)
        dims == IF type = "svg" THEN extractSVGDimensions(file.markup)
                ELSE getImageDimensions(file)
    IN  [id |-> <<t, i>>, file |-> file.name, type |-> type,
         decodes |-> file.decodes,
         svgContent |-> IF type = "svg" THEN file.markup ELSE NoMarkup,
         width |-> dims.width, height |-> dims.height]

-----------------------------------------------------------------------------
(* State.                                                                  *)
(*   shapes        the asset pool (useState), every queued update applied  *)
(*   pattern       the stored placement sequence, or Null                  *)
(*   options       the PatternOptions record                               *)
(*   isGenerating  the flag of the Generate control                        *)
(*   loads         the loadShapes calls: files, index i of the file being  *)
(*                 awaited, newShapes, and where the call stands; a call   *)
(*                 that has returned is "done" until React has rendered    *)
(*                 with its setShapes update, and "rendered" from then on  *)
(*   now           Date.now()                                              *)
(*   alerts        the messages shown with alert()                         *)
(*   gen           the generatePattern calls in flight or finished         *)
(*   previewCanvas, canvas   what the two canvas elements hold             *)
(*   rng           the values Math.random() is going to return             *)
(*   downloads     the files handed to the browser by the two exports      *)

\* the stored pattern: null, or a placement sequence
Null == [null |-> TRUE, layout |-> << >>]
Stored(layout) == [null |-> FALSE, layout |-> layout]

Alert(kind, name) == [kind |-> kind, name |-> name]

\* the 0-based index of the first file at or after i that is not skipped as
\* unsupported, or files.length
RECURSIVE NextSupported(_, _)
NextSupported(files, i) ==
    IF i >= Len(files) THEN Len(files)
    ELSE IF Supported(files[i + 1]) THEN i
    ELSE NextSupported(files, i + 1)

\* the alerts raised while skipping the files i .. j-1
Skipped(files, i, j) ==
    {Alert("unsupported", files[k + 1].name) : k \in i .. (j - 1)}

Load(files, i, newShapes, st) ==
    [files |-> files, i |-> i, newShapes |-> newShapes, st |-> st]

\* setShapes(prev => [...prev, ...newShapes])
AppendShapes(prev, newShapes) == prev \o newShapes

\* handleFileChange -> loadShapes(files): runs to the first await, or to the
\* end when every file is skipped
LoadShapes(files) ==
    /\ Len(loads) < MaxLoads
    /\ Len(files) > 0
    /\ LET j == NextSupported(files, 0)
       IN  /\ alerts' = alerts \cup Skipped(files, 0, j)
           /\ IF j = Len(files)
              THEN /\ shapes' = AppendShapes(shapes, << >>)
                   /\ loads' = Append(loads, Load(files, j, << >>, "done"))
              ELSE /\ shapes' = shapes
                   /\ loads' = Append(loads, Load(files, j, << >>, "reading"))
    /\ UNCHANGED <<pattern, options, isGenerating, now, gen, previewCanvas, canvas, rng, downloads>>

\* FileReader fails on the awaited file: readFileAsDataURL rejects, and with
\* it the loadShapes call
FileReadFails(b) ==
    /\ loads[b].st = "reading"
    /\ ~loads[b].files[loads[b].i + 1].readOk
    /\ loads' = [loads EXCEPT ![b].st = "rejected"]
    /\ UNCHANGED <<shapes, pattern, options, isGenerating, now, alerts, gen,
                   previewCanvas, canvas, rng, downloads>>

\* the awaited raster file does not decode: the promise of getImageDimensions
\* never settles
ImageNeverDecodes(b) ==
    /\ loads[b].st = "reading"
    /\ LET f == loads[b].files[loads[b].i + 1]
       IN  f.readOk /\ AssetType(f) = "png" /\ ~f.decodes
    /\ loads' = [loads EXCEPT ![b].st = "hung"]
    /\ UNCHANGED <<shapes, pattern, options, isGenerating, now, alerts, gen,
                   previewCanvas, canvas, rng, downloads>>

\* the reads of the awaited file settle (the awaits on one file read nothing
\* of the component's state and are taken as one step): its asset is pushed
\* with the time of that moment, and the loop runs on to the next await or
\* to setShapes
FileNormalized(b) ==
    /\ loads[b].st = "reading"
    /\ LET l == loads[b]
           f == l.files[l.i + 1]
           ns == Append(l.newShapes, NewAsset(f, l.i, now))
           j == NextSupported(l.files, l.i + 1)
       IN  /\ f.readOk
           /\ AssetType(f) = "svg" \/ f.decodes
           /\ alerts' = alerts \cup Skipped(l.files, l.i + 1, j)
           /\ IF j = Len(l.files)
              THEN /\ shapes' = AppendShapes(shapes, ns)
                   /\ loads' = [loads EXCEPT ![b] = Load(l.files, j, ns, "done")]
              ELSE /\ shapes' = shapes
                   /\ loads' = [loads EXCEPT ![b] = Load(l.files, j, ns, "reading")]
    /\ UNCHANGED <<pattern, options, isGenerating, now, gen, previewCanvas, canvas, rng, downloads>>

\* the clock advances
Tick ==
    /\ now < MaxClock
    /\ now' = now + 1
    /\ UNCHANGED <<shapes, pattern, options, isGenerating, loads, alerts, gen,
                   previewCanvas, canvas, rng, downloads>>

\* the number of assets appended by setShapes updates that no render has
\* processed yet: those of the loadShapes calls that have returned since the
\* last render
RECURSIVE Unrendered(_)
Unrendered(ls) ==
    IF ls = << >> THEN 0
    ELSE (IF Head(ls).st = "done" THEN Len(Head(ls).newShapes) ELSE 0)
            + Unrendered(Tail(ls))

\* the value of shapes in the closures of the last render: the pool without
\* the appends still queued
RenderedShapes == SubSeq(shapes, 1, Len(shapes) - Unrendered(loads))

\* every queued update has been processed
AllRendered(ls) ==
    [b \in 1 .. Len(ls) |->
        IF ls[b].st = "done" THEN [ls[b] EXCEPT !.st = "rendered"] ELSE ls[b]]

\* the render scheduled by setShapes takes place
Rendered ==
    /\ \E b \in 1 .. Len(loads) : loads[b].st = "done"
    /\ loads' = AllRendered(loads)
    /\ UNCHANGED <<shapes, pattern, options, isGenerating, now, alerts, gen,
                   previewCanvas, canvas, rng, downloads>>

\* s => s.id !== id, over the pool
RECURSIVE FilterOut(_, _)
FilterOut(pool, id) ==
    IF pool = << >> THEN << >>
    ELSE IF Head(pool).id # id THEN <<Head(pool)>> \o FilterOut(Tail(pool), id)
    ELSE FilterOut(Tail(pool), id)

\* the remove button of a listed shape: setShapes is given a value computed
\* from the shapes of the render the button belongs to, not an updater, so
\* the appends queued since that render are overwritten
removeShape(id) ==
    /\ shapes' = FilterOut(RenderedShapes, id)
    /\ loads' = AllRendered(loads)
    /\ UNCHANGED <<pattern, options, isGenerating, now, alerts, gen,
                   previewCanvas, canvas, rng, downloads>>

-----------------------------------------------------------------------------
(* The layout engine.                                                      *)

Options(shapeCount, offsetIntensity, enableRotation, canvasSize) ==
    [shapeCount |-> shapeCount, offsetIntensity |-> offsetIntensity,
     enableRotation |-> enableRotation, canvasSize |-> canvasSize]

\* the value of the k-th call of Math.random() from now on (k = 0, 1, ...)
MathRandom(r, k) == Num(r.seq[(r.pos + k) % RandPeriod], RandDen)

\* the random source after n calls
Drawn(r, n) == [r EXCEPT !.pos = (r.pos + n) % RandPeriod]

\* the grid computed with Math.floor in place of Math.ceil
GridSizeFloor(shapeCount) ==
    CHOOSE g \in 0 .. shapeCount : g * g <= shapeCount /\ (g + 1) * (g + 1) > shapeCount

\* Math.ceil(Math.sqrt(shapeCount))
GridSize(shapeCount) == CeilSqrt(shapeCount)

\* canvasSize / gridSize
CellSize(canvasSize, gridSize) == JsDiv(Num(canvasSize, 1), Num(gridSize, 1))

\* Math.floor(i / gridSize)
GridRow(i, gridSize) == i \div gridSize

\* i % gridSize
GridCol(i, gridSize) == i % gridSize

\* cell * cellSize + cellSize / 2
BaseCenter(cell, cellSize) ==
    JsAdd(JsMul(Num(cell, 1), cellSize), JsDiv(cellSize, Num(2, 1)))

\* the jitter range taken as the whole cell, offsetIntensity left out
MaxOffsetWholeCell(cellSize, offsetIntensity) == cellSize

\* cellSize * offsetIntensity
MaxOffset(cellSize, offsetIntensity) == JsMul(cellSize, offsetIntensity)

\* (Math.random() - 0.5) * maxOffset
Offset(random, maxOffset) == JsMul(JsSub(random, Num(1, 2)), maxOffset)

\* the rotation sampled whether or not rotation is enabled
RotationAlways(enableRotation, random) == JsMul(random, Num(360, 1))

\* enableRotation ? Math.random() * 360 : 0
Rotation(enableRotation, random) ==
    IF enableRotation THEN JsMul(random, Num(360, 1)) ELSE Num(0, 1)

\* shapes[Math.floor(Math.random() * shapes.length)]
PickAsset(pool, random) == pool[MathFloor(JsMul(random, Num(Len(pool), 1))) + 1]

\* targetSize / maxDim with targetSize = cellSize * 0.6
Scale(asset, cellSize) ==
    JsDiv(JsMul(cellSize, Num(6, 10)), MathMax(asset.width, asset.height))

\* the calls of Math.random() one iteration of the loop makes
DrawsPerShape(enableRotation) == IF enableRotation THEN 4 ELSE 3

\* the loop written with  i <= shapeCount
LoopCountInclusive(shapeCount) == shapeCount + 1

\* the number of iterations of  for (let i = 0; i < shapeCount; i++)
LoopCount(shapeCount) == shapeCount

\* the object pushed to layout in iteration i
PlacedShape(pool, opts, r, i) ==
    LET gridSize == GridSize(opts.shapeCount)
        cellSize == CellSize(opts.canvasSize, gridSize)
        k == i * DrawsPerShape(opts.enableRotation)
        asset == PickAsset(pool, MathRandom(r, k))
        maxOffset == MaxOffset(cellSize, opts.offsetIntensity)
    IN  [asset |-> asset,
         x |-> JsAdd(BaseCenter(GridCol(i, gridSize), cellSize),
                     Offset(MathRandom(r, k + 1), maxOffset)),
         y |-> JsAdd(BaseCenter(GridRow(i, gridSize), cellSize),
                     Offset(MathRandom(r, k + 2), maxOffset)),
         rotation |-> Rotation(opts.enableRotation, MathRandom(r, k + 3)),
         scale |-> Scale(asset, cellSize)]

\* shapes.length === 0
PoolEmpty(pool) == Len(pool) = 0

generatePatternLayout(pool, opts, r) ==
    IF PoolEmpty(pool) THEN << >>
    ELSE [n \in 1 .. LoopCount(opts.shapeCount) |->
             PlacedShape(pool, opts, r, n - 1)]

\* the calls of Math.random() generatePatternLayout makes
LayoutDraws(pool, opts) ==
    IF PoolEmpty(pool) THEN 0
    ELSE LoopCount(opts.shapeCount) * DrawsPerShape(opts.enableRotation)

-----------------------------------------------------------------------------
(* generatePattern and the raster renderer.                                *)

\* a canvas element: its size, whether it was filled white, and the
\* placements drawn on it since, in drawing order
Canvas(size, white, drawn) == [size |-> size, white |-> white, drawn |-> drawn]
Blank == Canvas(0, FALSE, << >>)

\* a generatePattern call: its layout, the options of its closure, the canvas
\* being rendered, the ids in imageCache, and where the call stands
Gen(layout, opts, target, cache, st) ==
    [layout |-> layout, opts |-> opts, target |-> target, cache |-> cache, st |-> st]

\* the first placement of the layout whose asset id is not in imageCache,
\* or 0 when every one is
RECURSIVE NextToLoad(_, _, _)
NextToLoad(layout, cache, n) ==
    IF n > Len(layout) THEN 0
    ELSE IF layout[n].asset.id \notin cache THEN n
    ELSE NextToLoad(layout, cache, n + 1)

\* renderToCanvas up to its first await: the canvas is resized and filled
canvasCleared(size) == Canvas(size, TRUE, << >>)

\* the second loop of renderToCanvas: every placement drawn, in order
canvasDrawn(size, layout) == Canvas(size, TRUE, layout)

\* ctx.drawImage for each of the placements, in their order, on top of what
\* the canvas holds
Painted(c, placements) == [c EXCEPT !.drawn = @ \o placements]

\* a renderer that draws the placements of an asset as soon as its image has
\* loaded
drawnOnLoadEach(layout, id) == SelectSeq(layout, LAMBDA p : p.asset.id = id)

\* the placements drawn when the image of asset id has loaded: none, the
\* first loop of renderToCanvas only fills imageCache
drawnOnLoad(layout, id) == << >>

\* the size generatePattern passes for the preview canvas
PreviewSize == 400

\* generatePattern with setIsGenerating(true) moved above the check of the pool
GeneratePatternEmptySetsFlag ==
    /\ PoolEmpty(RenderedShapes)
    /\ alerts' = alerts \cup {Alert("empty-pool", "")}
    /\ isGenerating' = TRUE
    /\ UNCHANGED <<shapes, pattern, options, loads, now, gen,
                   previewCanvas, canvas, rng, downloads>>

\* generatePattern with an empty pool: the alert and the early return
GeneratePatternEmpty ==
    /\ PoolEmpty(RenderedShapes)
    /\ alerts' = alerts \cup {Alert("empty-pool", "")}
    /\ UNCHANGED <<shapes, pattern, options, isGenerating, loads, now, gen,
                   previewCanvas, canvas, rng, downloads>>

\* generatePattern with shapes in the pool, up to its first await: the layout
\* is computed and stored, and the first render begins (the preview canvas is
\* mounted only once a pattern has been stored).  The shapes the handler
\* reads are those of the render it was created in.
GeneratePatternStart ==
    /\ ~PoolEmpty(RenderedShapes)
    /\ Len(gen) < MaxGenerations
    /\ LET layout == generatePatternLayout(RenderedShapes, options, rng)
           previewMounted == pattern # Null
       IN  /\ isGenerating' = TRUE
           /\ pattern' = Stored(layout)
           /\ rng' = Drawn(rng, LayoutDraws(RenderedShapes, options))
           /\ IF previewMounted
              THEN /\ previewCanvas' = canvasCleared(PreviewSize)
                   /\ canvas' = canvas
                   /\ gen' = Append(gen, Gen(layout, options, "preview", {}, "loading"))
              ELSE /\ previewCanvas' = previewCanvas
                   /\ canvas' = canvasCleared(options.canvasSize)
                   /\ gen' = Append(gen, Gen(layout, options, "full", {}, "loading"))
    /\ UNCHANGED <<shapes, options, loads, now, alerts, downloads>>

\* loadImage resolves for the awaited asset; after the last one the
\* placements are drawn, and the call goes on to the full-size canvas or ends
ImageLoaded(g) ==
    /\ gen[g].st = "loading"
    /\ LET c == gen[g]
           n == NextToLoad(c.layout, c.cache, 1)
           cache == c.cache \cup {c.layout[n].asset.id}
       IN  /\ c.layout[n].asset.decodes
           /\ IF NextToLoad(c.layout, cache, 1) # 0
              THEN /\ gen' = [gen EXCEPT ![g].cache = cache]
                   /\ IF c.target = "preview"
                      THEN /\ previewCanvas' = Painted(previewCanvas,
                                                     drawnOnLoad(c.layout, c.layout[n].asset.id))
                           /\ canvas' = canvas
                      ELSE /\ canvas' = Painted(canvas,
                                               drawnOnLoad(c.layout, c.layout[n].asset.id))
                           /\ previewCanvas' = previewCanvas
                   /\ UNCHANGED isGenerating
              ELSE IF c.target = "preview"
              THEN /\ previewCanvas' = canvasDrawn(PreviewSize, c.layout)
                   /\ canvas' = canvasCleared(c.opts.canvasSize)
                   /\ gen' = [gen EXCEPT ![g] = Gen(c.layout, c.opts, "full", {}, "loading")]
                   /\ UNCHANGED isGenerating
              ELSE /\ canvas' = canvasDrawn(c.opts.canvasSize, c.layout)
                   /\ gen' = [gen EXCEPT ![g] = Gen(c.layout, c.opts, "full", cache, "done")]
                   /\ isGenerating' = FALSE
                   /\ UNCHANGED previewCanvas
    /\ UNCHANGED <<shapes, pattern, options, loads, now, alerts, rng, downloads>>

\* generatePattern without its finally block: a rejected loadImage is
\* reported and the flag stays set
ImageFailsFlagKept(g) ==
    /\ gen[g].st = "loading"
    /\ LET c == gen[g]
           n == NextToLoad(c.layout, c.cache, 1)
       IN  ~c.layout[n].asset.decodes
    /\ gen' = [gen EXCEPT ![g].st = "failed"]
    /\ alerts' = alerts \cup {Alert("generate-error", "")}
    /\ UNCHANGED <<shapes, pattern, options, isGenerating, loads, now, previewCanvas,
                   canvas, rng, downloads>>

\* loadImage rejects for the awaited asset: the catch block reports it and
\* the finally block clears the flag
ImageFails(g) ==
    /\ gen[g].st = "loading"
    /\ LET c == gen[g]
           n == NextToLoad(c.layout, c.cache, 1)
       IN  ~c.layout[n].asset.decodes
    /\ gen' = [gen EXCEPT ![g].st = "failed"]
    /\ alerts' = alerts \cup {Alert("generate-error", "")}
    /\ isGenerating' = FALSE
    /\ UNCHANGED <<shapes, pattern, options, loads, now, previewCanvas, canvas, rng, downloads>>

-----------------------------------------------------------------------------
(* The transforms of the two renderers, and renderToSVG.  A transform is   *)
(* the composition translate(x, y) rotate(rotation) scale(scale)           *)
(* translate(tx, ty), the rotation in degrees.                             *)

Transform(x, y, rotation, scale, tx, ty) ==
    [x |-> x, y |-> y, rotation |-> rotation, scale |-> scale, tx |-> tx, ty |-> ty]

\* -d / 2
NegHalf(d) == JsDiv(JsMul(Num(-1, 1), d), Num(2, 1))

\* x.toFixed(digits), read back as a number: the nearest multiple of
\* 10^-digits, the one larger in magnitude when two are as near
ToFixed(x, digits) ==
    IF ~IsNum(x) THEN x
    ELSE LET p == 10 ^ digits
             m == (2 * Abs(x.n) * p + x.d) \div (2 * x.d)
         IN  Num(Sign(x) * m, p)

\* ctx.translate, ctx.rotate, ctx.scale and the offset passed to drawImage
CanvasTransform(shape) ==
    Transform(shape.x, shape.y, shape.rotation, shape.scale,
              NegHalf(shape.asset.width), NegHalf(shape.asset.height))

\* `${n}` for a number of the model: a numeric literal, or text such as NaN
NumberToString(x) ==
    IF IsNum(x) /\ x.d = 1 THEN Tok("int", x.n) ELSE Tok("junk", 0)

\* svgEl.getAttribute('viewBox') || `0 0 ${asset.width} ${asset.height}`
ViewBoxOrSize(asset) ==
    IF Truthy(asset.svgContent.viewBox) THEN asset.svgContent.viewBox
    ELSE <<Tok("int", 0), Tok("int", 0),
           NumberToString(asset.width), NumberToString(asset.height)>>

\* the transform string of renderToSVG, without the centering offset
SvgPlacing(shape) ==
    [x |-> ToFixed(shape.x, 2), y |-> ToFixed(shape.y, 2),
     rotation |-> ToFixed(shape.rotation, 2), scale |-> ToFixed(shape.scale, 4)]

\* asset.type === 'svg' && asset.svgContent : markup that was stored
EmbedsMarkup(asset) == asset.type = "svg"

\* what renderToSVG appends for one placement: a group around the embedded
\* markup, an image element, or nothing
SvgElements(shape) ==
    LET asset == shape.asset
        t == SvgPlacing(shape)
    IN  IF EmbedsMarkup(asset)
        THEN IF asset.svgContent.root
             THEN LET viewBox == ViewBoxOrSize(asset)
                      vbW == Component(viewBox, 3)
                      vbH == Component(viewBox, 4)
                  IN  << [kind |-> "g", of |-> asset.file,
                          width |-> vbW, height |-> vbH,
                          transform |-> Transform(t.x, t.y, t.rotation, t.scale,
                                                  NegHalf(vbW), NegHalf(vbH))] >>
             ELSE << >>
        ELSE << [kind |-> "image", of |-> asset.file,
                 width |-> asset.width, height |-> asset.height,
                 transform |-> Transform(t.x, t.y, t.rotation, t.scale,
                                         NegHalf(asset.width), NegHalf(asset.height))] >>

\* the elements of the placements n .. layout.length, the last one first
RECURSIVE SvgBodyReversed(_, _)
SvgBodyReversed(layout, n) ==
    IF n > Len(layout) THEN << >>
    ELSE SvgBodyReversed(layout, n + 1) \o SvgElements(layout[n])

\* the elements appended for the placements n .. layout.length
RECURSIVE SvgBody(_, _)
SvgBody(layout, n) ==
    IF n > Len(layout) THEN << >>
    ELSE SvgElements(layout[n]) \o SvgBody(layout, n + 1)

\* the document renderToSVG returns: its size, the elements after the white
\* rect, and the closing tag
renderToSVG(layout, size) ==
    [size |-> size, elements |-> SvgBody(layout, 1), closed |-> TRUE]

\* a file handed to the browser for download
Download(kind, png, svg) == [kind |-> kind, png |-> png, svg |-> svg]
NoDocument == [size |-> 0, elements |-> << >>, closed |-> FALSE]

\* the Download PNG button, shown once a pattern is stored: the full-size
\* canvas as it is
exportPNG ==
    /\ ~pattern.null
    /\ Len(downloads) < MaxExports
    /\ downloads' = Append(downloads, Download("png", canvas, NoDocument))
    /\ UNCHANGED <<shapes, pattern, options, isGenerating, loads, now, alerts, gen,
                   previewCanvas, canvas, rng>>

\* the Download SVG button, shown once a pattern is stored: the stored
\* pattern rendered for options.canvasSize
exportSVG ==
    /\ ~pattern.null
    /\ Len(downloads) < MaxExports
    /\ downloads' = Append(downloads,
                           Download("svg", Blank, renderToSVG(pattern.layout, options.canvasSize)))
    /\ UNCHANGED <<shapes, pattern, options, isGenerating, loads, now, alerts, gen,
                   previewCanvas, canvas, rng>>

-----------------------------------------------------------------------------
(* Initial states and specifications.                                      *)

\* useState({ shapeCount: 100, offsetIntensity: 0.3, enableRotation: true,
\*            canvasSize: 1080 })
DefaultOptions == Options(100, Num(3, 10), TRUE, 1080)

OffsetIntensities == {Num(0, 1), Num(3, 10), Num(1, 1)}
CanvasSizes == {400, 1080}

\* the options records the layout is generated for
OptionSet ==
    {Options(n, o, e, c) : n \in 1 .. MaxShapeCount, o \in OffsetIntensities,
                           e \in BOOLEAN, c \in CanvasSizes}

\* the random sources
RngStates == [seq : [0 .. (RandPeriod - 1) -> 0 .. (RandDen - 1)], pos : {0}]
ZeroRng == [seq |-> [k \in 0 .. (RandPeriod - 1) |-> 0], pos |-> 0]

\* the pool one loadShapes call leaves at time 0 for files that all load
PoolOf(files) == [n \in 1 .. Len(files) |-> NewAsset(files[n], n - 1, 0)]

SamplePools ==
    {<< >>,
     PoolOf(<<Png200x100>>),
     PoolOf(<<SvgViewBox, Png200x100>>),
     PoolOf(<<SvgBadAttrs, Png200x100>>),
     PoolOf(<<SvgMalformed, SvgViewBox>>)}

\* the state after construction
Init ==
    /\ shapes = << >>
    /\ pattern = Null
    /\ options = DefaultOptions
    /\ isGenerating = FALSE
    /\ loads = << >>
    /\ now = 0
    /\ alerts = {}
    /\ gen = << >>
    /\ previewCanvas = Blank
    /\ canvas = Blank
    /\ rng \in RngStates
    /\ downloads = << >>

\* setOptions({ ...options, ... })
SetOptions(o) ==
    /\ options' = o
    /\ UNCHANGED <<shapes, pattern, isGenerating, loads, now, alerts, gen,
                   previewCanvas, canvas, rng, downloads>>

Remove == \E n \in 1 .. Len(RenderedShapes) : removeShape(RenderedShapes[n].id)

Upload ==
    \/ \E files \in FileLists : LoadShapes(files)
    \/ \E b \in 1 .. Len(loads) : FileReadFails(b)
    \/ \E b \in 1 .. Len(loads) : ImageNeverDecodes(b)
    \/ \E b \in 1 .. Len(loads) : FileNormalized(b)
    \/ Rendered
    \/ Remove
    \/ Tick

Generate ==
    \/ GeneratePatternEmpty
    \/ GeneratePatternStart
    \/ \E g \in 1 .. Len(gen) : ImageLoaded(g)
    \/ \E g \in 1 .. Len(gen) : ImageFails(g)

Export ==
    \/ exportPNG
    \/ exportSVG

Next ==
    \/ Upload
    \/ Generate
    \/ Export
    \/ \E o \in OptionSet : SetOptions(o)

\* the whole component
Spec == Init /\ [][Next]_vars

\* the asset pool: uploads, removals and the clock, from construction
InitUpload == Init /\ rng = ZeroRng
SpecUpload == InitUpload /\ [][Upload]_vars

\* generatePatternLayout as a function of the pool, the options and the
\* random source
InitLayout ==
    /\ shapes \in SamplePools
    /\ options \in OptionSet
    /\ rng \in RngStates
    /\ pattern = Null
    /\ isGenerating = FALSE
    /\ loads = << >>
    /\ now = 0
    /\ alerts = {}
    /\ gen = << >>
    /\ previewCanvas = Blank
    /\ canvas = Blank
    /\ downloads = << >>

LayoutCall ==
    /\ pattern' = Stored(generatePatternLayout(shapes, options, rng))
    /\ rng' = Drawn(rng, LayoutDraws(shapes, options))
    /\ UNCHANGED <<shapes, options, isGenerating, loads, now, alerts, gen,
                   previewCanvas, canvas, downloads>>

SpecLayout == InitLayout /\ [][LayoutCall]_vars

\* a Generate button that is disabled only while the pool is empty
GenerateDisabledForEmptyPool == PoolEmpty(RenderedShapes)

\* disabled={shapes.length === 0 || isGenerating} of the Generate button
GenerateDisabled == PoolEmpty(RenderedShapes) \/ isGenerating

\* a click on the Generate button
ClickGenerate ==
    /\ ~GenerateDisabled
    /\ GeneratePatternStart

\* generatePattern and its renders, for a pool that uploads have left and a
\* shape count set with the slider, the other options as constructed
InitGenerate ==
    /\ InitLayout
    /\ options.offsetIntensity = DefaultOptions.offsetIntensity
    /\ options.enableRotation = DefaultOptions.enableRotation
    /\ options.canvasSize = DefaultOptions.canvasSize
SpecGenerate == InitGenerate /\ [][Generate \/ Remove]_vars

\* extractSVGDimensions as a function of the markup: a loadShapes call is
\* awaiting the reads of one SVG file, whose root has any of these attributes
ViewBoxes ==
    {Absent, EmptyString,
     <<Tok("int", 0), Tok("int", 0), Tok("int", 50), Tok("int", 40)>>,
     <<Tok("int", 0), Tok("int", 0), Tok("int", 0), Tok("int", 40)>>,
     <<Tok("int", 0), Tok("int", 0), Tok("junk", 0), Tok("int", 40)>>,
     <<Tok("int", 0), Tok("int", 0), Tok("int", 50)>>}
Lengths == {Absent, EmptyString, Str(0), Str(30), Px(30), Junk}
Markups ==
    {NoMarkup} \cup {Markup(TRUE, v, w, h) : v \in ViewBoxes, w \in Lengths, h \in Lengths}
InitDimensions ==
    /\ \E m \in Markups :
          loads = << Load(<<File("drawn.svg", "image/svg+xml", TRUE, TRUE, m, 0, 0)>>,
                          0, << >>, "reading") >>
    /\ shapes = << >>
    /\ pattern = Null
    /\ options = DefaultOptions
    /\ isGenerating = FALSE
    /\ now = 0
    /\ alerts = {}
    /\ gen = << >>
    /\ previewCanvas = Blank
    /\ canvas = Blank
    /\ rng = ZeroRng
    /\ downloads = << >>
SpecDimensions == InitDimensions /\ [][\E b \in 1 .. Len(loads) : FileNormalized(b)]_vars

\* the same through the controls of the page: generatePattern runs when the
\* Generate button is clicked
Settle ==
    \/ \E g \in 1 .. Len(gen) : ImageLoaded(g)
    \/ \E g \in 1 .. Len(gen) : ImageFails(g)
Page ==
    \/ ClickGenerate
    \/ Settle
    \/ Remove
SpecPage == InitGenerate /\ [][Page]_vars

\* the page when every image load that is awaited settles in the end
SpecPageFair == SpecPage /\ WF_vars(Settle)

\* generations and the two export buttons, for the sample pools and a pool
\* holding markup whose viewBox has a zero component, the pool left as it is
ExportPools == SamplePools \cup {PoolOf(<<SvgViewBoxZero, Png200x100>>)}
InitExport ==
    /\ shapes \in ExportPools
    /\ options \in {Options(n, DefaultOptions.offsetIntensity, DefaultOptions.enableRotation,
                             DefaultOptions.canvasSize) : n \in 1 .. MaxShapeCount}
    /\ rng \in RngStates
    /\ pattern = Null
    /\ isGenerating = FALSE
    /\ loads = << >>
    /\ now = 0
    /\ alerts = {}
    /\ gen = << >>
    /\ previewCanvas = Blank
    /\ canvas = Blank
    /\ downloads = << >>
SpecExport == InitExport /\ [][ClickGenerate \/ Settle \/ Export]_vars

-----------------------------------------------------------------------------
(* Properties of the layout, stated over the stored pattern of SpecLayout, *)
(* where the pattern is the layout of the pool, the options and the        *)
(* random source of the state.  The expected grid is computed here from    *)
(* the options alone.                                                      *)

Zero == Num(0, 1)

\* ceil(sqrt(n)), characterised by its defining inequalities
ExpectedGrid(n) == CHOOSE g \in 1 .. n : g * g >= n /\ (g - 1) * (g - 1) < n

\* canvasSize / ceil(sqrt(shapeCount))
ExpectedCell(opts) == Num(opts.canvasSize, ExpectedGrid(opts.shapeCount))

\* the centre of the grid cell of placement number i (0-based), per axis
ExpectedCenterX(opts, i) ==
    LET g == ExpectedGrid(opts.shapeCount)
    IN  Num((2 * (i % g) + 1) * opts.canvasSize, 2 * g)
ExpectedCenterY(opts, i) ==
    LET g == ExpectedGrid(opts.shapeCount)
    IN  Num((2 * (i \div g) + 1) * opts.canvasSize, 2 * g)

\* |a - b| for finite a, b
Distance(a, b) == IF JsLt(a, b) THEN JsSub(b, a) ELSE JsSub(a, b)

\* cellSize * offsetIntensity / 2
HalfJitter(opts) == JsDiv(JsMul(ExpectedCell(opts), opts.offsetIntensity), Num(2, 1))

Placements == 1 .. Len(pattern.layout)
LayoutStored == ~pattern.null /\ Len(shapes) > 0

\* C1: for a non-empty pool and valid options the layout has exactly
\* shapeCount placements, and each placement's asset is an element of the pool
LayoutCountAndMembership ==
    LayoutStored =>
        /\ Len(pattern.layout) = options.shapeCount
        /\ \A n \in Placements :
              \E m \in 1 .. Len(shapes) : shapes[m] = pattern.layout[n].asset

\* C1 witness: a layout of four placements over a pool of two assets, both used
LayoutOfFourOverTwoAssets ==
    /\ LayoutStored
    /\ Len(shapes) = 2
    /\ Len(pattern.layout) = 4
    /\ \A m \in 1 .. 2 : \E n \in Placements : pattern.layout[n].asset = shapes[m]

\* C3 as claimed: every placement has scale > 0 and
\* scale * max(asset.width, asset.height) = cellSize * 0.6
ScaleFitsCell ==
    LayoutStored =>
        \A n \in Placements :
            LET p == pattern.layout[n]
            IN  /\ JsLt(Zero, p.scale)
                /\ JsEq(JsMul(p.scale, MathMax(p.asset.width, p.asset.height)),
                        JsMul(ExpectedCell(options), Num(3, 5)))

\* C4 as claimed: the jittered centre deviates from the cell centre by strictly
\* less than cellSize * offsetIntensity / 2 in each axis
JitterStrictlyInsideHalf ==
    LayoutStored =>
        \A n \in Placements :
            LET p == pattern.layout[n]
            IN  /\ JsLt(Distance(p.x, ExpectedCenterX(options, n - 1)), HalfJitter(options))
                /\ JsLt(Distance(p.y, ExpectedCenterY(options, n - 1)), HalfJitter(options))

\* C4 amended: the jittered centre deviates from the cell centre by at most
\* cellSize * offsetIntensity / 2 in each axis
JitterWithinHalf ==
    LayoutStored =>
        \A n \in Placements :
            LET p == pattern.layout[n]
            IN  /\ JsLe(Distance(p.x, ExpectedCenterX(options, n - 1)), HalfJitter(options))
                /\ JsLe(Distance(p.y, ExpectedCenterY(options, n - 1)), HalfJitter(options))

\* C4 witness: a layout with jitter enabled in which one placement sits on the
\* bound and another sits off its cell centre by less than the bound
JitterOnAndInsideBound ==
    /\ LayoutStored
    /\ JsLt(Zero, options.offsetIntensity)
    /\ \E n \in Placements :
          JsEq(Distance(pattern.layout[n].x, ExpectedCenterX(options, n - 1)),
               HalfJitter(options))
    /\ \E n \in Placements :
          JsLt(Distance(pattern.layout[n].y, ExpectedCenterY(options, n - 1)),
               HalfJitter(options))

\* C5: placement i gets row i div gridSize and column i mod gridSize of the
\* grid of side ceil(sqrt(shapeCount)); both are below gridSize, distinct
\* indices get distinct cells, and without jitter the centre is the centre of
\* that cell (shapeCount 4 on canvas 400: (100,100),(300,100),(100,300),(300,300))
GridCellOfIndex ==
    LayoutStored =>
        LET g == GridSize(options.shapeCount)
            idx == 0 .. (Len(pattern.layout) - 1)
        IN  /\ g = ExpectedGrid(options.shapeCount)
            /\ \A i \in idx :
                  /\ GridRow(i, g) = i \div g /\ GridRow(i, g) < g
                  /\ GridCol(i, g) = i % g /\ GridCol(i, g) < g
            /\ \A i, j \in idx :
                  i # j => <<GridRow(i, g), GridCol(i, g)>> # <<GridRow(j, g), GridCol(j, g)>>
            /\ options.offsetIntensity = Zero =>
                  \A i \in idx :
                      /\ pattern.layout[i + 1].x = ExpectedCenterX(options, i)
                      /\ pattern.layout[i + 1].y = ExpectedCenterY(options, i)
            /\ (options.offsetIntensity = Zero /\ options.shapeCount = 4
                  /\ options.canvasSize = 400) =>
                  [n \in 1 .. 4 |-> <<pattern.layout[n].x, pattern.layout[n].y>>]
                      = << <<Num(100, 1), Num(100, 1)>>, <<Num(300, 1), Num(100, 1)>>,
                           <<Num(100, 1), Num(300, 1)>>, <<Num(300, 1), Num(300, 1)>> >>

\* C5 witness: the layout of scenario A (four shapes, canvas 400, no jitter)
\* with its last placement centred at (300, 300)
ScenarioALayout ==
    /\ LayoutStored
    /\ options.shapeCount = 4 /\ options.canvasSize = 400
    /\ options.offsetIntensity = Zero
    /\ Len(pattern.layout) = 4
    /\ pattern.layout[4].x = Num(300, 1) /\ pattern.layout[4].y = Num(300, 1)

\* C6: every placement has 0 <= rotation < 360, and rotation is 0 for every
\* placement when enableRotation is false
RotationInRange ==
    LayoutStored =>
        \A n \in Placements :
            /\ JsLe(Zero, pattern.layout[n].rotation)
            /\ JsLt(pattern.layout[n].rotation, Num(360, 1))
            /\ ~options.enableRotation => pattern.layout[n].rotation = Zero

\* C6 witness: a layout with rotation enabled holding a rotated placement and
\* an unrotated one
RotatedAndUnrotated ==
    /\ LayoutStored
    /\ options.enableRotation
    /\ \E n \in Placements : JsLt(Zero, pattern.layout[n].rotation)
    /\ \E n \in Placements : pattern.layout[n].rotation = Zero

-----------------------------------------------------------------------------
(* Properties of the asset pool, stated over SpecUpload.                   *)

\* a file that loadShapes can turn into an asset: accepted kind, readable,
\* and decodable where it is decoded
Normalizes(file) ==
    /\ Supported(file)
    /\ file.readOk
    /\ AssetType(file) = "svg" \/ file.decodes

\* the loadShapes calls that end in this step: they were awaiting (or are
\* started by the step) and have now returned, rejected or stalled for good
EndingLoads ==
    {b \in 1 .. Len(loads') :
        /\ loads'[b].st \in {"done", "rejected", "hung"}
        /\ b <= Len(loads) => loads[b].st = "reading"}

FileNames(pool) == [n \in 1 .. Len(pool) |-> pool[n].file]

\* the names of the files of a batch that are in accepted, in batch order
RECURSIVE NamesWhere(_, _)
NamesWhere(files, accepted) ==
    IF files = << >> THEN << >>
    ELSE (IF Head(files).name \in accepted THEN <<Head(files).name>> ELSE << >>)
            \o NamesWhere(Tail(files), accepted)

\* the names of the files that normalize
NormalizingNames == {f.name : f \in {x \in Files : Normalizes(x)}}

\* C2 as claimed: every asset in the pool has width > 0 and height > 0
PoolDimensionsPositive ==
    \A n \in 1 .. Len(shapes) :
        JsLt(Zero, shapes[n].width) /\ JsLt(Zero, shapes[n].height)

\* C7 as claimed: no two assets of the pool share an id
PoolIdsUnique ==
    \A m, n \in 1 .. Len(shapes) : m # n => shapes[m].id # shapes[n].id

\* C8 as claimed: however a loadShapes call ends, every file of its batch
\* that has an accepted kind and normalizes has been appended to the pool,
\* whatever happened to the other files of the batch
FailureIsolatedPerFile ==
    [][\A b \in EndingLoads :
          LET names == NamesWhere(loads'[b].files, NormalizingNames)
          IN  /\ Len(shapes') = Len(shapes) + Len(names)
              /\ SubSeq(FileNames(shapes'), Len(shapes) + 1, Len(shapes')) = names]_vars

\* C9 as claimed: when a loadShapes call ends, every file of the batch of
\* neither kind has been reported and is not in the pool, and the accepted
\* files of the batch (those that normalize) have been appended to the pool in
\* batch order, the assets already in the pool staying as they were
UnsupportedSkippedRestAppended ==
    [][\A b \in EndingLoads :
          LET files == loads'[b].files
              names == NamesWhere(files, NormalizingNames)
          IN  /\ \A k \in 1 .. Len(files) :
                    ~Supported(files[k]) =>
                        /\ Alert("unsupported", files[k].name) \in alerts'
                        /\ \A n \in 1 .. Len(shapes') : shapes'[n].file # files[k].name
              /\ Len(shapes') = Len(shapes) + Len(names)
              /\ SubSeq(shapes', 1, Len(shapes)) = shapes
              /\ SubSeq(FileNames(shapes'), Len(shapes) + 1, Len(shapes')) = names]_vars

-----------------------------------------------------------------------------
(* Properties of generatePattern, stated over SpecGenerate.                *)

\* C10: a generatePattern call made while the pool is empty reports the
\* condition and leaves the stored pattern, isGenerating and both canvases
\* as they were
EmptyPoolReportedNothingGenerated ==
    [][(Len(shapes) = 0 /\ (GeneratePatternEmpty \/ GeneratePatternStart)) =>
          /\ Alert("empty-pool", "") \in alerts'
          /\ pattern' = pattern
          /\ isGenerating' = isGenerating
          /\ previewCanvas' = previewCanvas
          /\ canvas' = canvas
          /\ gen' = gen]_vars

\* C10 witness: the condition has been reported for a pool emptied after a
\* generation, whose stored pattern and rendered canvas are still there
EmptyPoolReportedAfterGeneration ==
    /\ Len(shapes) = 0
    /\ Alert("empty-pool", "") \in alerts
    /\ ~pattern.null
    /\ ~isGenerating
    /\ canvas.drawn = pattern.layout

-----------------------------------------------------------------------------
(* Properties of the renders and the exports, stated over SpecPage.        *)

\* the canvas a generatePattern call is rendering into, after the step
TargetAfter(g) == IF gen[g].target = "preview" THEN previewCanvas' ELSE canvas'

\* C11: when the decoding of an asset of the layout fails, the render fails
\* as a whole (the failure is reported) with no placement of the layout drawn
\* into the target buffer, and no buffer ever holds only some placements of a
\* layout: a buffer holds none or all of them
RenderAllOrNothing ==
    [][/\ \A g \in 1 .. Len(gen) :
             (gen[g].st = "loading" /\ gen'[g].st = "failed") =>
                 /\ Alert("generate-error", "") \in alerts'
                 /\ TargetAfter(g).drawn = << >>
       /\ \A c \in {previewCanvas', canvas'} :
             c.drawn = << >> \/ \E g \in 1 .. Len(gen') : c.drawn = gen'[g].layout]_vars

\* C11 witness: a render has failed on the second asset of its layout after
\* the image of the first had loaded, and the cleared buffer holds no placement
RenderFailedOnSecondAsset ==
    \E g \in 1 .. Len(gen) :
        /\ gen[g].st = "failed"
        /\ gen[g].cache # {}
        /\ Len(gen[g].layout) >= 2
        /\ canvas.white /\ canvas.drawn = << >>

\* the document handed over by the exportSVG step being taken
ExportedDocument == downloads'[Len(downloads')].svg

\* the placements a document has an element for: all but those whose stored
\* markup has no svg root
HasElement(p) == ~(p.asset.type = "svg" /\ ~p.asset.svgContent.root)

\* C12 as claimed: for every placement the exported document applies the
\* transform the raster renderer applies: translate(x, y), rotate(rotation),
\* scale(scale), then translate(-asset.width / 2, -asset.height / 2) with the
\* asset's stored width and height, whatever the stored markup is
TransformsAgree ==
    [][exportSVG =>
          LET emitted == SelectSeq(pattern.layout, HasElement)
          IN  /\ Len(ExportedDocument.elements) = Len(emitted)
              /\ \A n \in 1 .. Len(emitted) :
                    ExportedDocument.elements[n].transform = CanvasTransform(emitted[n])]_vars

\* the generatePattern calls whose current render draws its placements in
\* the step being taken
FinishingRender ==
    {g \in 1 .. Len(gen) :
        /\ gen[g].st = "loading"
        /\ gen'[g].st = "done" \/ gen'[g].target # gen[g].target}

\* C13: both renderers follow the order of the sequence: a finished render
\* has drawn placement i before placement j for i < j, and the exported
\* document lists the elements of the placements in the same order, so the
\* back-to-front order of the two outputs is the same
RenderersKeepSequenceOrder ==
    [][/\ \A g \in FinishingRender :
             /\ Len(TargetAfter(g).drawn) = Len(gen[g].layout)
             /\ \A i \in 1 .. Len(gen[g].layout) :
                   TargetAfter(g).drawn[i] = gen[g].layout[i]
       /\ exportSVG =>
             LET emitted == SelectSeq(pattern.layout, HasElement)
             IN  /\ Len(ExportedDocument.elements) = Len(emitted)
                 /\ \A n \in 1 .. Len(emitted) :
                       <<ExportedDocument.elements[n]>> = SvgElements(emitted[n])]_vars

\* C13 witness: a document of two or more elements, of different assets at
\* its first two positions, exported for a pattern that the full-size canvas
\* shows drawn
OrderedDocumentAndCanvas ==
    /\ Len(downloads) > 0
    /\ downloads[1].kind = "svg"
    /\ Len(downloads[1].svg.elements) >= 2
    /\ downloads[1].svg.elements[1].of # downloads[1].svg.elements[2].of
    /\ Len(pattern.layout) >= 2
    /\ canvas.drawn = pattern.layout

\* C14 as claimed: when the stored markup of a placement's asset has no svg
\* root, the exported document leaves out the group of that placement only,
\* holds the elements of all other placements and is closed, and the omission
\* is surfaced to the user
MalformedMarkupOmittedWithWarning ==
    [][(exportSVG /\ \E n \in Placements : ~HasElement(pattern.layout[n])) =>
          LET emitted == SelectSeq(pattern.layout, HasElement)
          IN  /\ Len(ExportedDocument.elements) = Len(emitted)
              /\ \A n \in 1 .. Len(emitted) :
                    ExportedDocument.elements[n].of = emitted[n].asset.file
              /\ ExportedDocument.closed
              /\ alerts' # alerts]_vars

-----------------------------------------------------------------------------
(* Properties of removeShape, stated over SpecUpload.                      *)

\* the pool without the assets whose id is id
Without(pool, id) == SelectSeq(pool, LAMBDA a : a.id # id)

\* C15 as claimed: removeShape(id) takes the asset with that id out of the
\* pool and nothing else: every other asset, those of an upload batch
\* completing around the same time included, stays in its order, and the
\* stored pattern is unchanged
RemoveTakesOnlyThatAsset ==
    [][\A n \in 1 .. Len(RenderedShapes) :
          removeShape(RenderedShapes[n].id) =>
              /\ shapes' = Without(shapes, RenderedShapes[n].id)
              /\ pattern' = pattern]_vars

-----------------------------------------------------------------------------
(* Properties of extractSVGDimensions, stated over SpecDimensions.         *)

\* a viewBox component as the claim resolves it: the number at the position
\* when there is one and it is not zero, and 100 otherwise
ClaimedComponent(viewBox, pos) ==
    IF pos <= Len(viewBox) /\ viewBox[pos].t = "int" /\ viewBox[pos].v # 0
    THEN Num(viewBox[pos].v, 1)
    ELSE Num(100, 1)

\* a width or height attribute as the claim resolves it: its number when it
\* is present and starts with one, and 100 otherwise
ClaimedLength(attr) ==
    IF attr # << >> /\ attr[1].t \in {"int", "unit"}
    THEN Num(attr[1].v, 1)
    ELSE Num(100, 1)

ClaimedDimensions(m) ==
    IF ~m.root THEN Dims(Num(100, 1), Num(100, 1))
    ELSE IF m.viewBox # << >> /\ m.viewBox # << Tok("empty", 0) >>
    THEN Dims(ClaimedComponent(m.viewBox, 3), ClaimedComponent(m.viewBox, 4))
    ELSE Dims(ClaimedLength(m.width), ClaimedLength(m.height))

\* C16 as claimed: the dimensions stored for vector markup are the third and
\* fourth viewBox components when a viewBox is present (100 for a missing or
\* zero component), otherwise the width and height attributes, and 100 for a
\* dimension that is neither present nor parseable
DimensionsResolvedInPriorityOrder ==
    \A n \in 1 .. Len(shapes) :
        shapes[n].type = "svg" =>
            Dims(shapes[n].width, shapes[n].height) = ClaimedDimensions(shapes[n].svgContent)

-----------------------------------------------------------------------------
(* Properties of the generation runs, stated over SpecPage.                *)

\* the generatePattern calls whose renders are still going on
InFlight == {g \in 1 .. Len(gen) : gen[g].st = "loading"}

\* C17: generatePattern starts only while isGenerating is false, at most one
\* generation run is in flight at any time, and only the newest run makes
\* progress: no render of an older run loads an image or writes to a canvas
\* once a newer run has started
OnlyNewestGenerationRenders ==
    [][/\ Len(gen') > Len(gen) => ~isGenerating /\ InFlight = {}
       /\ \A g \in 1 .. Len(gen) : gen'[g] # gen[g] => g = Len(gen')
       /\ (previewCanvas' # previewCanvas \/ canvas' # canvas) =>
             /\ Len(gen') > 0
             /\ \A g \in 1 .. (Len(gen') - 1) : gen'[g].st # "loading"]_vars

\* C17 witness: a second generation run is rendering the full-size canvas,
\* its preview drawn, after the first run has ended
SecondRunRendersAlone ==
    /\ Len(gen) = 2
    /\ gen[1].st \in {"done", "failed"}
    /\ gen[2].st = "loading" /\ gen[2].target = "full"
    /\ isGenerating
    /\ previewCanvas.drawn = gen[2].layout

\* C18 as claimed: whenever an export is triggered, the full-size canvas that
\* exportPNG reads holds a complete rendering, at the size of the document,
\* of exactly the placement sequence that exportSVG serializes, also while a
\* generation is in flight and after one whose render failed
ExportsShowSameComposition ==
    [][(exportPNG \/ exportSVG) =>
          /\ canvas.white
          /\ canvas.size = options.canvasSize
          /\ canvas.drawn = pattern.layout]_vars

\* C19: every generation run that sets isGenerating eventually clears it,
\* whether its renders succeed or the decoding of an asset fails, provided
\* every image load settles: the flag is set exactly while a run is in flight,
\* and a set flag is always followed by a cleared one
GenerationAlwaysEnds ==
    /\ [](isGenerating <=> InFlight # {})
    /\ (isGenerating ~> ~isGenerating)

\* C19 witness: one run has ended with a failed decode and another with its
\* renders done, and the flag is cleared
RunsEndedBothWays ==
    /\ ~isGenerating
    /\ \E g \in 1 .. Len(gen) : gen[g].st = "failed"
    /\ \E g \in 1 .. Len(gen) : gen[g].st = "done"

\* C20 as claimed: when a generation run completes without error, the first
\* one included, the preview canvas holds a rendering of the layout the run
\* generated
PreviewRenderedAfterEveryRun ==
    [][\A g \in 1 .. Len(gen) :
          (gen[g].st = "loading" /\ gen'[g].st = "done") =>
              /\ previewCanvas'.white
              /\ previewCanvas'.size = 400
              /\ previewCanvas'.drawn = gen[g].layout]_vars

\* a placement's centre lies inside a square buffer of the given size
CenterInside(p, size) ==
    /\ JsLe(Zero, p.x) /\ JsLe(p.x, Num(size, 1))
    /\ JsLe(Zero, p.y) /\ JsLe(p.y, Num(size, 1))

\* C21 as claimed: every render that generatePattern makes, the preview
\* render of size 400 as well as the full-size render, draws each placement
\* with its centre inside the buffer: 0 <= x <= size and 0 <= y <= size for
\* the size the buffer was given
CentersInsideRenderedBuffer ==
    [][\A g \in FinishingRender :
          \A n \in 1 .. Len(TargetAfter(g).drawn) :
              CenterInside(TargetAfter(g).drawn[n], TargetAfter(g).size)]_vars

====
